---- MODULE Spec2Model ----
(***************************************************************************)
(* Model of chef/encrypted_data_bag_item.py: the versioned encryptors and  *)
(* decryptors of encrypted data bag items, the dispatch functions          *)
(* create_encryptor / create_decryptor and the item's __getitem__ /        *)
(* __setitem__ hooks.                                                      *)
(*                                                                         *)
(* Representation.  Python bytes and text are sequences of integers (byte  *)
(* values, code points).  A Python value is a pair <<tag, payload>>.  A    *)
(* dict is a TLA+ function from key names to Python values.  The library   *)
(* conversions (base64, hexlify, UTF-8, JSON) are computed; SHA-256, HMAC  *)
(* and AES-256-CBC are stand-ins that are injective on the model's inputs. *)
(* The interpreter modelled is Python 3 (line 141 takes its first branch). *)
(***************************************************************************)
EXTENDS Integers, Sequences, FiniteSets, TLC

\* ------------------------------------------------------------ bounds

\* Number of distinct outputs os.urandom can give in the model.
NumRandom == 2
\* encrypt()/to_dict() calls followed on one encryptor object.
MaxCalls == 3
\* A field is changed at a position at most this far from either end.
TamperWidth == 1

\* ------------------------------------------------------------ Python values

PyInt(n) == <<"int", n>>
PyStr(s) == <<"str", s>>
PyBytes(b) == <<"bytes", b>>
PyList(l) == <<"list", l>>
PyDict(d) == <<"dict", d>>
PyNone == <<"none", 0>>

\* None in an attribute that otherwise holds bytes.
None == <<-1>>

Ok(v) == [ok |-> TRUE, val |-> v, err |-> ""]
Raise(e) == [ok |-> FALSE, val |-> <<>>, err |-> e]

\* d with d[k] = v.
DictSet(d, k, v) == (k :> v) @@ d

\* The sequence f as a tuple.
AsSeq(f) == f \o <<>>

EmptyDict == <<>>

\* ------------------------------------------------------------ text conversions

\* A quarter of the length of lo..hi.
Quarter(lo, hi) == (hi - lo + 1) \div 4

\* The concatenation of the sequences ss[lo], ..., ss[hi], taken by quarters.
RECURSIVE Concat(_, _, _)
Concat(ss, lo, hi) ==
    IF hi - lo < 4
    THEN ((IF lo <= hi THEN ss[lo] ELSE <<>>) \o (IF lo + 1 <= hi THEN ss[lo + 1] ELSE <<>>))
         \o ((IF lo + 2 <= hi THEN ss[lo + 2] ELSE <<>>) \o (IF lo + 3 <= hi THEN ss[lo + 3] ELSE <<>>))
    ELSE (Concat(ss, lo, lo + Quarter(lo, hi) - 1)
          \o Concat(ss, lo + Quarter(lo, hi), lo + 2 * Quarter(lo, hi) - 1))
         \o (Concat(ss, lo + 2 * Quarter(lo, hi), lo + 3 * Quarter(lo, hi) - 1)
             \o Concat(ss, lo + 3 * Quarter(lo, hi), hi))

\* The sum of f[lo], ..., f[hi], taken by quarters.
RECURSIVE SumRange(_, _, _)
SumRange(f, lo, hi) ==
    IF hi - lo < 4
    THEN ((IF lo <= hi THEN f[lo] ELSE 0) + (IF lo + 1 <= hi THEN f[lo + 1] ELSE 0))
         + ((IF lo + 2 <= hi THEN f[lo + 2] ELSE 0) + (IF lo + 3 <= hi THEN f[lo + 3] ELSE 0))
    ELSE (SumRange(f, lo, lo + Quarter(lo, hi) - 1)
          + SumRange(f, lo + Quarter(lo, hi), lo + 2 * Quarter(lo, hi) - 1))
         + (SumRange(f, lo + 2 * Quarter(lo, hi), lo + 3 * Quarter(lo, hi) - 1)
            + SumRange(f, lo + 3 * Quarter(lo, hi), hi))

\* str.encode('utf8') for code points below 0x800.
Utf8Encode(s) ==
    Concat([i \in 1..Len(s) |->
               IF s[i] < 128 THEN <<s[i]>>
               ELSE <<192 + (s[i] \div 64), 128 + (s[i] % 64)>>], 1, Len(s))

Utf8Lead(c) == c >= 194 /\ c < 224
Utf8Cont(c) == c >= 128 /\ c < 192

\* bytes.decode('utf-8'): one- and two-byte sequences; anything else is a
\* UnicodeDecodeError (a ValueError).
Utf8Decode(b) ==
    IF \A i \in 1..Len(b) :
          \/ b[i] < 128
          \/ Utf8Lead(b[i]) /\ i < Len(b) /\ Utf8Cont(b[i + 1])
          \/ Utf8Cont(b[i]) /\ i > 1 /\ Utf8Lead(b[i - 1])
    THEN Ok(Concat([i \in 1..Len(b) |->
                       IF b[i] < 128 THEN <<b[i]>>
                       ELSE IF Utf8Lead(b[i])
                       THEN <<(b[i] - 192) * 64 + (b[i + 1] - 128)>>
                       ELSE <<>>], 1, Len(b)))
    ELSE Raise("UnicodeDecodeError")

\* str(n) for a natural number.
RECURSIVE IntStr(_)
IntStr(n) == IF n < 10 THEN <<48 + n>> ELSE IntStr(n \div 10) \o <<48 + (n % 10)>>

\* str(v) of a Python value that is an int or a text.
Str(v) == IF v[1] = "int" THEN IntStr(v[2]) ELSE v[2]

HexDigit(d) == IF d < 10 THEN 48 + d ELSE 87 + d

\* binascii.hexlify
hexlify(b) ==
    AsSeq([i \in 1..(2 * Len(b)) |->
              IF i % 2 = 1 THEN HexDigit(b[(i + 1) \div 2] \div 16)
              ELSE HexDigit(b[i \div 2] % 16)])

\* ------------------------------------------------------------ base64

B64Char(i) ==
    IF i < 26 THEN 65 + i
    ELSE IF i < 52 THEN 97 + (i - 26)
    ELSE IF i < 62 THEN 48 + (i - 52)
    ELSE IF i = 62 THEN 43 ELSE 47

\* The 6-bit value of a character of the alphabet; 64 for any other character.
B64Index(c) ==
    IF c >= 65 /\ c <= 90 THEN c - 65
    ELSE IF c >= 97 /\ c <= 122 THEN c - 97 + 26
    ELSE IF c >= 48 /\ c <= 57 THEN c - 48 + 52
    ELSE IF c = 43 THEN 62
    ELSE IF c = 47 THEN 63 ELSE 64

\* base64.standard_b64encode: the character at each position of the output,
\* four for every three bytes, '=' where the last group has no byte.
standard_b64encode(b) ==
    AsSeq([p \in 1..(4 * ((Len(b) + 2) \div 3)) |->
        LET g    == (p - 1) \div 4
            have == Len(b) - 3 * g
            b1   == b[3 * g + 1]
            b2   == IF have >= 2 THEN b[3 * g + 2] ELSE 0
            b3   == IF have >= 3 THEN b[3 * g + 3] ELSE 0
        IN  CASE (p - 1) % 4 = 0 -> B64Char(b1 \div 4)
              [] (p - 1) % 4 = 1 -> B64Char((b1 % 4) * 16 + (b2 \div 16))
              [] (p - 1) % 4 = 2 -> IF have >= 2 THEN B64Char((b2 % 16) * 4 + (b3 \div 64))
                                    ELSE 61
              [] OTHER           -> IF have >= 3 THEN B64Char(b3 % 64) ELSE 61])

IsData(c) == B64Index(c) < 64

\* The number of characters of the alphabet before position i of s.
DataBefore(s, i) == Cardinality({j \in 1..(i - 1) : IsData(s[j])})

\* The positions at which the decoder stops reading: a '=' that completes
\* the padding of a quad holding two or three characters.
PadStops(s) ==
    {i \in 1..Len(s) :
        /\ s[i] = 61
        /\ \/ DataBefore(s, i) % 4 = 3
           \/ /\ DataBefore(s, i) % 4 = 2
              /\ \E j \in 1..(i - 1) : s[j] = 61 /\ DataBefore(s, j) = DataBefore(s, i)}

\* The characters of the alphabet the decoder reads from s: those before
\* its first stop.
A2bData(s, stops) ==
    SelectSeq(SubSeq(s, 1, IF stops = {} THEN Len(s)
                           ELSE (CHOOSE i \in stops : \A j \in stops : i <= j) - 1),
              IsData)

\* The bytes of the 6-bit values v, three for every four.
A2bBytes(v) ==
    AsSeq([m \in 1..((Len(v) * 6) \div 8) |->
        CASE (m - 1) % 3 = 0 ->
                 v[4 * ((m - 1) \div 3) + 1] * 4 + (v[4 * ((m - 1) \div 3) + 2] \div 16)
          [] (m - 1) % 3 = 1 ->
                 (v[4 * ((m - 1) \div 3) + 2] % 16) * 16 + (v[4 * ((m - 1) \div 3) + 3] \div 4)
          [] OTHER ->
                 (v[4 * ((m - 1) \div 3) + 3] % 4) * 64 + v[4 * ((m - 1) \div 3) + 4]])

\* The outcome of the decoder that stopped at stops and read data.
A2bDecode(stops, data) ==
    IF stops = {} /\ Len(data) % 4 # 0 THEN Raise("binascii.Error")
    ELSE Ok(A2bBytes(AsSeq([i \in 1..Len(data) |-> B64Index(data[i])])))

\* binascii.a2b_base64 as base64.standard_b64decode calls it (not strict):
\* characters outside the alphabet are skipped, a complete pad sequence ends
\* the input, left-over characters of an incomplete quad are an error.
standard_b64decode(s) == A2bDecode(PadStops(s), A2bData(s, PadStops(s)))

\* ------------------------------------------------------------ JSON

Wrapper == <<106, 115, 111, 110, 95, 119, 114, 97, 112, 112, 101, 114>>

\* The text of a dict key.
KeyText(k) ==
    CASE k = "json_wrapper" -> Wrapper
      [] k = "password"     -> <<112, 97, 115, 115, 119, 111, 114, 100>>
      [] OTHER              -> <<97>>

\* json.dumps with its default separators, for ASCII texts without escapes.
RECURSIVE JsonDumps(_), JsonItems(_), JsonMembers(_, _)
JsonItems(l) ==
    IF l = <<>> THEN <<>>
    ELSE JsonDumps(l[1]) \o (IF Len(l) > 1 THEN <<44, 32>> \o JsonItems(Tail(l)) ELSE <<>>)
JsonMembers(d, ks) ==
    IF ks = {} THEN <<>>
    ELSE LET k == CHOOSE x \in ks : TRUE
         IN  <<34>> \o KeyText(k) \o <<34, 58, 32>> \o JsonDumps(d[k])
             \o (IF ks \ {k} # {} THEN <<44, 32>> \o JsonMembers(d, ks \ {k}) ELSE <<>>)
JsonDumps(v) ==
    CASE v[1] = "int"  -> IntStr(v[2])
      [] v[1] = "str"  -> <<34>> \o v[2] \o <<34>>
      [] v[1] = "list" -> <<91>> \o JsonItems(v[2]) \o <<93>>
      [] v[1] = "dict" -> <<123>> \o JsonMembers(v[2], DOMAIN v[2]) \o <<125>>
      [] OTHER         -> <<110, 117, 108, 108>>

\* The values callers encrypt: a text, a list, a mapping.
Values ==
    { PyStr(<<115, 51>>),
      PyList(<<PyInt(1), PyNone>>),
      PyDict([password |-> PyStr(<<115, 51, 99, 114, 101, 116>>)]) }

Wrap(x) == PyDict([json_wrapper |-> x])

\* Documents that parse as JSON and are no wrapper document.
BareDocuments ==
    { PyList(<<PyInt(1)>>), PyDict([a |-> PyInt(1)]) }

JsonDocuments == {Wrap(x) : x \in Values} \cup BareDocuments

\* json.loads: the document whose text this is; any other text is a
\* ValueError.
JsonLoads(text) ==
    IF \E v \in JsonDocuments : JsonDumps(v) = text
    THEN Ok(CHOOSE v \in JsonDocuments : JsonDumps(v) = text)
    ELSE Raise("ValueError")

\* value[key] for a text key.
Subscript(v, k) ==
    IF v[1] = "dict"
    THEN IF k \in DOMAIN v[2] THEN Ok(v[2][k]) ELSE Raise("KeyError")
    ELSE Raise("TypeError")

\* ------------------------------------------------------------ primitives

SumSeq(s) == SumRange(s, 1, Len(s))

\* The sum of i * s[i].
WeightedSum(s) == SumRange([i \in 1..Len(s) |-> i * s[i]], 1, Len(s))

\* Sum of the elements of s at the positions j, j + m, j + 2m, ...
ClassSum(s, j, m) ==
    SumRange([i \in 1..Len(s) |-> IF i >= j /\ (i - j) % m = 0 THEN s[i] ELSE 0],
             1, Len(s))

\* Bit k of a.
Bit(a, k) == (a \div (2 ^ k)) % 2

\* a ^ b for a, b below 16.
Xor4(a, b) ==
    (((Bit(a, 0) + Bit(b, 0)) % 2) + 2 * ((Bit(a, 1) + Bit(b, 1)) % 2))
    + (4 * ((Bit(a, 2) + Bit(b, 2)) % 2) + 8 * ((Bit(a, 3) + Bit(b, 3)) % 2))

\* a | b for a, b below 16.
Or4(a, b) ==
    ((IF Bit(a, 0) + Bit(b, 0) > 0 THEN 1 ELSE 0) + (IF Bit(a, 1) + Bit(b, 1) > 0 THEN 2 ELSE 0))
    + ((IF Bit(a, 2) + Bit(b, 2) > 0 THEN 4 ELSE 0) + (IF Bit(a, 3) + Bit(b, 3) > 0 THEN 8 ELSE 0))

\* a ^ b, a byte at a time.
RECURSIVE BitXor(_, _)
BitXor(a, b) ==
    IF a < 256 /\ b < 256
    THEN Xor4(a % 16, b % 16) + 16 * Xor4(a \div 16, b \div 16)
    ELSE BitXor(a % 256, b % 256) + 256 * BitXor(a \div 256, b \div 256)

\* a | b, a byte at a time.
RECURSIVE BitOr(_, _)
BitOr(a, b) ==
    IF a < 256 /\ b < 256
    THEN Or4(a % 16, b % 16) + 16 * Or4(a \div 16, b \div 16)
    ELSE BitOr(a % 256, b % 256) + 256 * BitOr(a \div 256, b \div 256)

\* Length in bytes of a SHA-256 digest.
DigestSize == 32

\* The cipher's IV length in bytes (chef.aes).
EVP_MAX_IV_LENGTH == 16

\* hashlib.sha256(b).digest(): a stand-in, injective on inputs shorter than
\* the digest, whose value is never its input.
sha256(b) ==
    AsSeq([i \in 1..DigestSize |->
              IF i = 1 THEN Len(b) % 256 ELSE IF i - 1 <= Len(b) THEN b[i - 1] ELSE 0])

\* hmac.new(key, msg, hashlib.sha256).digest(): a stand-in that tells apart
\* the keys of the model and any two messages that differ in length or in
\* one character.
hmac_new(key, msg) ==
    AsSeq([i \in 1..DigestSize |->
        CASE i = 1 -> Len(key) % 256
          [] i = 2 -> SumSeq(key) % 256
          [] i = 3 -> WeightedSum(key) % 256
          [] i = 4 -> Len(msg) % 256
          [] OTHER -> ClassSum(msg, i - 4, DigestSize - 4) % 256])

\* One byte standing for a key or an IV inside a ciphertext.
Tag(b) == (SumSeq(b) + 7 * Len(b) + WeightedSum(b)) % 256

\* AES256Cipher(key=..., iv=...): a cipher object bound to its key and IV.
AES256Cipher(key, iv) == [key |-> key, iv |-> iv]

\* AES256Cipher.encrypt: a stand-in, injective in key, IV and plaintext.
CipherEncryptBytes(c, pt) == <<Tag(c.key), Tag(c.iv), SumSeq(pt) % 256>> \o pt

\* encrypt of a text: of its UTF-8 bytes.
CipherEncrypt(c, text) == CipherEncryptBytes(c, Utf8Encode(text))

\* Byte strings a decryption with the wrong key or IV, or of a changed
\* ciphertext, can give: not UTF-8, not JSON, JSON that is no wrapper
\* document, and (by chance) the wrapper document of some value.
Garbage ==
    { <<255, 123>>, <<123, 34, 106, 115>> }
    \cup {Utf8Encode(JsonDumps(d)) : d \in BareDocuments}
    \cup {Utf8Encode(JsonDumps(Wrap(PyStr(<<115, 51>>))))}

\* AES256Cipher.decrypt: the outcomes it can have.  The plaintext when key,
\* IV and ciphertext are those of the encryption; otherwise some garbage,
\* or a failure of the cipher (bad length or padding).
CipherDecrypt(c, ct) ==
    IF /\ Len(ct) >= 3
       /\ ct[1] = Tag(c.key)
       /\ ct[2] = Tag(c.iv)
       /\ ct[3] = SumSeq(SubSeq(ct, 4, Len(ct))) % 256
    THEN {Ok(SubSeq(ct, 4, Len(ct)))}
    ELSE {Ok(g) : g \in Garbage} \cup {Raise("CipherError")}

\* os.urandom(n): the byte strings it can return in the model.
urandom(n) == {AsSeq([i \in 1..n |-> (89 * j + 37 * i) % 256]) : j \in 1..NumRandom}

\* ------------------------------------------------------------ encryptors

SUPPORTED_ENCRYPTION_VERSIONS == {1, 2}

UnsupportedVersion == "ChefUnsupportedEncryptionVersionError"
DecryptionError == "ChefDecryptionError"
KeyIncorrect == "Error decrypting data bag value. Most likely the provided key is incorrect"
HmacFailed == "Error decrypting data bag value. HMAC validation failed."

\* "aes-256-cbc"
CipherName == <<97, 101, 115, 45, 50, 53, 54, 45, 99, 98, 99>>

\* What one call did with the primitives.
NoWork ==
    [urandom |-> 0, sha256 |-> 0, ciphers |-> 0, encrypts |-> 0,
     decrypts |-> 0, hmacs |-> 0, encryptors |-> 0, decryptors |-> 0]

AddWork(a, b) ==
    [urandom    |-> a.urandom + b.urandom,       sha256     |-> a.sha256 + b.sha256,
     ciphers    |-> a.ciphers + b.ciphers,       encrypts   |-> a.encrypts + b.encrypts,
     decrypts   |-> a.decrypts + b.decrypts,     hmacs      |-> a.hmacs + b.hmacs,
     encryptors |-> a.encryptors + b.encryptors, decryptors |-> a.decryptors + b.decryptors]

NoObject == [cls |-> "unset"]
NoneObject == [cls |-> "NoneType"]

\* The object once ct is stored in it, ct returned, one encryption done.
Encrypted(self, ct) ==
    [self |-> [self EXCEPT !.encrypted_data = ct],
     ret  |-> ct,
     work |-> [NoWork EXCEPT !.encrypts = 1]]

\* EncryptorVersion1.__init__; rnd is what os.urandom returned.
EncryptorVersion1(key, data, rnd) ==
    [cls            |-> "EncryptorVersion1",
     VERSION        |-> 1,
     plain_key      |-> Utf8Encode(key),
     key            |-> sha256(Utf8Encode(key)),
     data           |-> data,
     iv             |-> hexlify(rnd),
     encryptor      |-> AES256Cipher(sha256(Utf8Encode(key)), hexlify(rnd)),
     encrypted_data |-> None]

\* EncryptorVersion2.__init__: the parent's constructor, then hmac = None.
EncryptorVersion2(key, data, rnd) ==
    [cls |-> "EncryptorVersion2", VERSION |-> 2, hmac |-> None]
    @@ EncryptorVersion1(key, data, rnd)

\* The primitives one encryptor's __init__ uses (lines 56, 58, 59).
InitWork ==
    [NoWork EXCEPT !.urandom = 1, !.sha256 = 1, !.ciphers = 1, !.encryptors = 1]

\* EncryptorVersion1.encrypt without the test of line 63: every call
\* encrypts again.
EncryptorVersion1_encrypt_again(self) ==
    Encrypted(self, CipherEncrypt(self.encryptor, JsonDumps(Wrap(self.data))))

\* EncryptorVersion1.encrypt: the object afterwards, the value returned and
\* the work done.
EncryptorVersion1_encrypt(self) ==
    IF self.encrypted_data = None
    THEN Encrypted(self, CipherEncrypt(self.encryptor, JsonDumps(Wrap(self.data))))
    ELSE [self |-> self, ret |-> self.encrypted_data, work |-> NoWork]

\* EncryptorVersion2._generate_hmac
generate_hmac(self) ==
    hmac_new(self.plain_key, standard_b64encode(self.encrypted_data))

\* Line 84: what the parent's encrypt returned is stored in the object.
StoreEncrypted(sup) == [sup EXCEPT !.self.encrypted_data = sup.ret]

\* Line 85: the tag is generated unless the object holds one.
StoreHmac(sup) ==
    IF sup.self.hmac = None
    THEN [sup EXCEPT !.self.hmac = generate_hmac(sup.self), !.work.hmacs = 1]
    ELSE sup

\* EncryptorVersion2.encrypt without line 85: the tag is left as it is.
EncryptorVersion2_encrypt_untagged(self) ==
    StoreEncrypted(EncryptorVersion1_encrypt(self))

\* EncryptorVersion2.encrypt
EncryptorVersion2_encrypt(self) ==
    StoreHmac(StoreEncrypted(EncryptorVersion1_encrypt(self)))

\* self.encrypt(): the method of the object's class.
encrypt(self) ==
    IF self.cls = "EncryptorVersion2"
    THEN EncryptorVersion2_encrypt(self)
    ELSE EncryptorVersion1_encrypt(self)

\* base64.standard_b64encode(b).decode(): the text of the encoding.
B64Text(b) == PyStr(Utf8Decode(standard_b64encode(b)).val)

\* The dict of lines 69-74 for the outcome e of self.encrypt().
Envelope1(e) ==
    [self |-> e.self,
     ret  |-> Ok([encrypted_data |-> B64Text(e.ret),
                  iv             |-> B64Text(e.self.iv),
                  version        |-> PyInt(e.self.VERSION),
                  cipher         |-> PyStr(CipherName)]),
     work |-> e.work]

\* EncryptorVersion1.to_dict; ret is Ok(dict) or the exception raised.
EncryptorVersion1_to_dict(self) == Envelope1(encrypt(self))

\* Line 94 for the outcome sup of the parent's to_dict; base64 of None is a
\* TypeError.
Envelope2(sup) ==
    IF sup.self.hmac = None
    THEN [sup EXCEPT !.ret = Raise("TypeError")]
    ELSE [sup EXCEPT !.ret = Ok(DictSet(sup.ret.val, "hmac", B64Text(sup.self.hmac)))]

\* EncryptorVersion2.to_dict
EncryptorVersion2_to_dict(self) == Envelope2(EncryptorVersion1_to_dict(self))

to_dict(self) ==
    IF self.cls = "EncryptorVersion2"
    THEN EncryptorVersion2_to_dict(self)
    ELSE EncryptorVersion1_to_dict(self)

\* table[version], a KeyError turned into the unsupported-version error.
Lookup(table, version) ==
    IF version[1] = "int" /\ version[2] \in DOMAIN table
    THEN [ret  |-> Ok(table[version[2]]), arg |-> PyNone,
          work |-> AddWork(InitWork, InitWork)]
    ELSE [ret  |-> Raise(UnsupportedVersion), arg |-> version,
          work |-> AddWork(InitWork, InitWork)]

\* create_encryptor: the dict literal builds both encryptors, then the
\* version is looked up in it; r1 and r2 are what os.urandom returned to the
\* two constructors.
create_encryptor(key, data, version, r1, r2) ==
    Lookup(<<EncryptorVersion1(key, data, r1), EncryptorVersion2(key, data, r2)>>, version)

\* ------------------------------------------------------------ decryptors

\* get_decryption_version with the newest version as the default.
get_decryption_version_newest(data) ==
    IF "version" \in DOMAIN data
    THEN IF Str(data["version"]) \in {Str(PyInt(v)) : v \in SUPPORTED_ENCRYPTION_VERSIONS}
         THEN [ret |-> Ok(data["version"]), arg |-> PyNone]
         ELSE [ret |-> Raise(UnsupportedVersion), arg |-> data["version"]]
    ELSE [ret |-> Ok(PyInt(2)), arg |-> PyNone]

\* get_decryption_version
get_decryption_version(data) ==
    IF "version" \in DOMAIN data
    THEN IF Str(data["version"]) \in {Str(PyInt(v)) : v \in SUPPORTED_ENCRYPTION_VERSIONS}
         THEN [ret |-> Ok(data["version"]), arg |-> PyNone]
         ELSE [ret |-> Raise(UnsupportedVersion), arg |-> data["version"]]
    ELSE [ret |-> Ok(PyInt(1)), arg |-> PyNone]

\* The primitives one decryptor's __init__ uses (lines 115, 118).
DecryptorInitWork ==
    [NoWork EXCEPT !.sha256 = 1, !.ciphers = 1, !.decryptors = 1]

\* The object of lines 115-118 for the outcomes d and v of the two decodings.
Decryptor1(key, d, v) ==
    IF ~d.ok THEN Raise(d.err)
    ELSE IF ~v.ok THEN Raise(v.err)
    ELSE Ok([cls       |-> "DecryptorVersion1",
             key       |-> sha256(Utf8Encode(key)),
             data      |-> d.val,
             iv        |-> v.val,
             decryptor |-> AES256Cipher(sha256(Utf8Encode(key)), v.val)])

\* DecryptorVersion1.__init__ on the texts data and iv.
DecryptorVersion1(key, data, iv) ==
    Decryptor1(key, standard_b64decode(data), standard_b64decode(iv))

\* The object of lines 132-133 for the outcome sup of the parent's
\* constructor and the outcome h of decoding the tag.
Decryptor2(sup, h, data) ==
    IF ~sup.ok THEN sup
    ELSE IF ~h.ok THEN Raise(h.err)
    ELSE Ok([cls |-> "DecryptorVersion2", hmac |-> h.val, encoded_data |-> data]
            @@ sup.val)

\* DecryptorVersion2.__init__
DecryptorVersion2(key, data, iv, hmac) ==
    Decryptor2(DecryptorVersion1(key, data, iv), standard_b64decode(hmac), data)

\* data[f] for each f of fields in turn, for a dict of texts: the first
\* missing field is a KeyError.
RECURSIVE ReadFields(_, _, _)
ReadFields(data, fields, read) ==
    IF fields = <<>> THEN [ok |-> TRUE, reads |-> read]
    ELSE IF fields[1] \in DOMAIN data
    THEN ReadFields(data, Tail(fields), read \cup {fields[1]})
    ELSE [ok |-> FALSE, reads |-> read \cup {fields[1]}]

\* What create_decryptor gives when it raises e before building anything.
NotBuilt(e, arg, reads) ==
    [ret |-> Raise(e), arg |-> arg, reads |-> reads, work |-> NoWork]

\* What create_decryptor gives when the fields it reads are there (rd) and
\* the constructor gives obj.
Built(rd, obj) ==
    IF ~rd.ok THEN NotBuilt("KeyError", PyNone, rd.reads)
    ELSE [ret |-> obj, arg |-> PyNone, reads |-> rd.reads, work |-> DecryptorInitWork]

\* The fields get_decryption_version reads.
VersionRead(data) == IF "version" \in DOMAIN data THEN {"version"} ELSE {}

\* Lines 108-111 for the outcome gv of get_decryption_version.
Dispatch(key, data, gv) ==
    IF ~gv.ret.ok THEN NotBuilt(gv.ret.err, gv.arg, VersionRead(data))
    ELSE IF gv.ret.val = PyInt(1)
    THEN Built(ReadFields(data, <<"encrypted_data", "iv">>, VersionRead(data)),
               DecryptorVersion1(key, data["encrypted_data"][2], data["iv"][2]))
    ELSE IF gv.ret.val = PyInt(2)
    THEN Built(ReadFields(data, <<"encrypted_data", "iv", "hmac">>, VersionRead(data)),
               DecryptorVersion2(key, data["encrypted_data"][2], data["iv"][2],
                                 data["hmac"][2]))
    ELSE [ret |-> Ok(NoneObject), arg |-> PyNone, reads |-> VersionRead(data),
          work |-> NoWork]

\* create_decryptor: the object returned (NoneObject when the function falls
\* off its end) or the exception, the fields of data it read and the work.
create_decryptor(key, data) == Dispatch(key, data, get_decryption_version(data))

\* expected_char ^ candidate_char for the pair at i, 0 past hi.
PairXor(expected, candidate, i, hi) ==
    IF i <= hi THEN BitXor(expected[i], candidate[i]) ELSE 0

\* The loop of _validate_hmac over the pairs lo..hi of two sequences of equal
\* length: the OR of the XORs of the pairs, taken by quarters (OR is
\* associative, so this is what valid |= gives pair after pair).
RECURSIVE CompareFrom(_, _, _, _)
CompareFrom(expected, candidate, lo, hi) ==
    IF hi - lo < 4
    THEN BitOr(BitOr(PairXor(expected, candidate, lo, hi),
                     PairXor(expected, candidate, lo + 1, hi)),
               BitOr(PairXor(expected, candidate, lo + 2, hi),
                     PairXor(expected, candidate, lo + 3, hi)))
    ELSE BitOr(BitOr(CompareFrom(expected, candidate, lo, lo + Quarter(lo, hi) - 1),
                     CompareFrom(expected, candidate, lo + Quarter(lo, hi),
                                 lo + 2 * Quarter(lo, hi) - 1)),
               BitOr(CompareFrom(expected, candidate, lo + 2 * Quarter(lo, hi),
                                 lo + 3 * Quarter(lo, hi) - 1),
                     CompareFrom(expected, candidate, lo + 3 * Quarter(lo, hi), hi)))

\* Lines 139-146: valid starts as the XOR of the lengths and the loop ORs the
\* XOR of each pair of bytes into it.  zip_longest fills the shorter side
\* with None, so with different lengths some pair is int ^ None, a TypeError.
Compare(expected_hmac, candidate_hmac) ==
    IF Len(expected_hmac) # Len(candidate_hmac) THEN Raise("TypeError")
    ELSE Ok(BitOr(BitXor(Len(expected_hmac), Len(candidate_hmac)),
                  CompareFrom(expected_hmac, candidate_hmac, 1, Len(expected_hmac))))

IsZero(valid) == IF valid.ok THEN Ok(valid.val = 0) ELSE valid

\* DecryptorVersion2._validate_hmac: Ok(TRUE), Ok(FALSE) or the exception.
validate_hmac(self) ==
    IsZero(Compare(hmac_new(self.key, Utf8Encode(self.encoded_data)), self.hmac))

\* What a call returns or raises, for the caller.
Returned(v, w) == [kind |-> "ok", msg |-> "", val |-> v, work |-> w]
Raised(e, m, v, w) == [kind |-> e, msg |-> m, val |-> v, work |-> w]

\* The work of one call of the cipher's decrypt.
DecryptWork == [NoWork EXCEPT !.decrypts = 1]

\* The work of one HMAC computation.
HmacWork == [NoWork EXCEPT !.hmacs = 1]

\* The outcome r with the work w done before it.
After(w, r) == [r EXCEPT !.work = AddWork(w, r.work)]

\* Line 127: value['json_wrapper'], outside the try block.
Unwrap(field) ==
    IF field.ok THEN Returned(field.val, DecryptWork)
    ELSE Raised(field.err, "", PyNone, DecryptWork)

\* Lines 122-127 for the outcome value of decoding and parsing: a ValueError
\* becomes the ChefDecryptionError.
Loaded(value) ==
    IF ~value.ok THEN Raised(DecryptionError, KeyIncorrect, PyNone, DecryptWork)
    ELSE Unwrap(Subscript(value.val, "json_wrapper"))

\* json.loads of the outcome text of bytes.decode().
LoadText(text) == IF text.ok THEN JsonLoads(text.val) ELSE text

\* DecryptorVersion1.decrypt, given the outcome of the cipher's decrypt.
DecryptorVersion1_decrypt(self, plain) ==
    IF ~plain.ok THEN Raised(plain.err, "", PyNone, DecryptWork)
    ELSE Loaded(LoadText(Utf8Decode(plain.val)))

\* Lines 149-152 for the outcome valid of _validate_hmac().
Validated(valid, self, plain) ==
    IF ~valid.ok THEN Raised(valid.err, "", PyNone, HmacWork)
    ELSE IF valid.val THEN After(HmacWork, DecryptorVersion1_decrypt(self, plain))
    ELSE Raised(DecryptionError, HmacFailed, PyNone, HmacWork)

\* DecryptorVersion2.decrypt
DecryptorVersion2_decrypt(self, plain) == Validated(validate_hmac(self), self, plain)

\* obj.decrypt(): the method of the object's class; None has none.
decrypt(self, plain) ==
    CASE self.cls = "DecryptorVersion2" -> DecryptorVersion2_decrypt(self, plain)
      [] self.cls = "DecryptorVersion1" -> DecryptorVersion1_decrypt(self, plain)
      [] OTHER -> Raised("AttributeError", "", PyNone, NoWork)

\* The outcomes of the cipher for a decryptor object.
Plains(self) ==
    IF self.cls \in {"DecryptorVersion1", "DecryptorVersion2"}
    THEN CipherDecrypt(self.decryptor, self.data)
    ELSE {Raise("unused")}

\* ------------------------------------------------------------ the item's hooks

\* Line 40 for the outcome td of to_dict(), after the work w.
Stored(raw, key, w, td) ==
    IF td.ret.ok
    THEN [raw_data |-> DictSet(raw, key, PyDict(td.ret.val)),
          out      |-> Returned(PyNone, AddWork(w, td.work))]
    ELSE [raw_data |-> raw,
          out      |-> Raised(td.ret.err, "", PyNone, AddWork(w, td.work))]

\* Line 40 for the outcome ce of create_encryptor.
StoreWith(raw, key, ce) ==
    IF ~ce.ret.ok
    THEN [raw_data |-> raw, out |-> Raised(ce.ret.err, "", ce.arg, ce.work)]
    ELSE Stored(raw, key, ce.work, to_dict(ce.ret.val))

\* __setitem__ without the test of line 37: 'id' is encrypted like any field.
setitem_encrypt_all(raw, config, key, value, r1, r2) ==
    StoreWith(raw, key, create_encryptor(config.encryption_key, value,
                                         config.encryption_version, r1, r2))

\* EncryptedDataBagItem.__setitem__: raw_data afterwards and the outcome.
setitem(raw, config, key, value, r1, r2) ==
    IF key = "id"
    THEN [raw_data |-> DictSet(raw, key, value), out |-> Returned(PyNone, NoWork)]
    ELSE StoreWith(raw, key, create_encryptor(config.encryption_key, value,
                                              config.encryption_version, r1, r2))

\* The decryptor __getitem__ builds for a key that is not 'id'.
getitem_decryptor(raw, config, key) ==
    IF key \in DOMAIN raw /\ key # "id"
    THEN create_decryptor(config.encryption_key, raw[key][2])
    ELSE [ret |-> Ok(NoObject), arg |-> PyNone, reads |-> {}, work |-> NoWork]

\* Line 34 for the outcome cd of create_decryptor.
DecryptWith(cd, plain) ==
    IF ~cd.ret.ok THEN Raised(cd.ret.err, "", cd.arg, cd.work)
    ELSE After(cd.work, decrypt(cd.ret.val, plain))

\* EncryptedDataBagItem.__getitem__, given the outcome of the cipher.
getitem(raw, config, key, plain) ==
    IF key \notin DOMAIN raw THEN Raised("KeyError", "", PyNone, NoWork)
    ELSE IF key = "id" THEN Returned(raw[key], NoWork)
    ELSE DecryptWith(getitem_decryptor(raw, config, key), plain)

\* ------------------------------------------------------------ inputs

\* "hunter2" and a passphrase with a character outside ASCII.
Passphrases == { <<104, 117, 110, 116, 101, 114, 50>>, <<107, 233>> }

\* Versions a caller asks create_encryptor for: 1, 2, 3 and the text "2".
RequestedVersions == { PyInt(1), PyInt(2), PyInt(3), PyStr(<<50>>) }

\* Versions the item's configuration holds.
ConfiguredVersions == { PyInt(1), PyInt(2), PyInt(3) }

ItemKeys == {"id", "a"}

RandomBytes == urandom(EVP_MAX_IV_LENGTH \div 2)

\* Plaintexts another writer may have encrypted: wrapper documents and
\* byte strings that are none.
ForeignPlaintexts == {Utf8Encode(JsonDumps(Wrap(x))) : x \in Values} \cup Garbage

\* Shapes of envelopes read from the store: the version field (absent, the
\* int n "in", the text n "sn") and the tag (absent, keyed with the raw
\* passphrase, keyed with its digest, one byte short, one byte long).
Shapes ==
    { <<"absent", "absent">>, <<"absent", "derived">>, <<"i1", "absent">>,
      <<"i2", "raw">>, <<"i2", "derived">>, <<"i2", "short">>, <<"i2", "long">>,
      <<"i2", "absent">>, <<"s1", "absent">>, <<"s2", "derived">>, <<"i3", "absent">> }

\* The shape of an envelope whose tag the version 2 decryptor accepts.
Sealed == <<"i2", "derived">>

ShapeVersion(v) ==
    CASE v = "i1" -> PyInt(1) [] v = "i2" -> PyInt(2) [] v = "i3" -> PyInt(3)
      [] v = "s1" -> PyStr(<<49>>) [] OTHER -> PyStr(<<50>>)

\* The tag full made one byte short or long, or left as it is.
Resized(full, t) ==
    CASE t = "short" -> SubSeq(full, 1, Len(full) - 1)
      [] t = "long"  -> Append(full, 0)
      [] OTHER       -> full

\* The tag of shape t over the text ed under passphrase k.
ForeignTag(k, ed, t) ==
    Resized(hmac_new(IF t = "raw" THEN Utf8Encode(k) ELSE sha256(Utf8Encode(k)), ed), t)

\* The fields of an envelope of the given shape.
ForeignFields(iv, ed, tag, shape) ==
    (IF shape[1] = "absent" THEN <<>> ELSE "version" :> ShapeVersion(shape[1]))
    @@ (IF shape[2] = "absent" THEN <<>> ELSE "hmac" :> B64Text(tag))
    @@ [encrypted_data |-> PyStr(ed), iv |-> B64Text(iv), cipher |-> PyStr(CipherName)]

\* The envelope of the given shape around ciphertext ct under passphrase k.
ForeignAround(k, iv, ed, shape) ==
    ForeignFields(iv, ed, ForeignTag(k, ed, shape[2]), shape)

\* The IV of every envelope another writer wrote.
ForeignIv == hexlify(CHOOSE r \in RandomBytes : TRUE)

\* An envelope of the given shape around plaintext pt under passphrase k.
Foreign(k, pt, shape) ==
    ForeignAround(k, ForeignIv,
                  standard_b64encode(CipherEncryptBytes(
                      AES256Cipher(sha256(Utf8Encode(k)), ForeignIv), pt)),
                  shape)

\* Positions of a text of length n at which a character is changed.
TamperPositions(n) == {p \in 1..n : p <= TamperWidth \/ p > n - TamperWidth}

\* Characters put in place of c: c with its lowest or its highest bit of
\* the 6-bit value flipped, the pad character and a line break.
Substitutes(c) ==
    ((IF B64Index(c) < 64
      THEN {B64Char(BitXor(B64Index(c), 1)), B64Char(BitXor(B64Index(c), 32))}
      ELSE {65}) \cup {61, 10}) \ {c}

\* The texts one change makes of t: one character replaced, or a line
\* break added at the end.
Tampered(t) ==
    UNION {{[t EXCEPT ![p] = c] : c \in Substitutes(t[p])} : p \in TamperPositions(Len(t))}
    \cup {Append(t, 10)}

\* ------------------------------------------------------------ state

VARIABLES
    enc,       \* the encryptor object in hand
    hist,      \* what was observed of that object since its construction
    env,       \* the envelope in hand, where it came from and what was changed
    dec,       \* the decryptor object in hand and the passphrase it was given
    ret,       \* the last call: what it returned or raised, and its work
    api,       \* the item's configuration: encryption_key, encryption_version
    raw_data,  \* the item's stored fields
    written    \* per stored field, the value and the configured version of the last write

vars == <<enc, hist, env, dec, ret, api, raw_data, written>>

NoHist ==
    [iv0 |-> None, encrypts |-> 0, hmacs |-> 0, n_encrypt |-> 0, n_to_dict |-> 0,
     enc_rets |-> {}, dict_rets |-> {}]

\* data: the envelope; base: as it was written; src: who wrote it; k: the
\* writer's passphrase; x: what was encrypted; shape: the writer's shape;
\* tampered: the field changed since.
NoEnvelope ==
    [data |-> EmptyDict, base |-> EmptyDict, src |-> "none", k |-> <<>>,
     x |-> PyNone, shape |-> <<"none", "none">>, tampered |-> ""]

NoDecryptor == [obj |-> NoObject, passphrase |-> <<>>]

NotCalled == Raise("not called")

NoRet ==
    [op |-> "none", key |-> "", kind |-> "ok", msg |-> "", val |-> PyNone,
     work |-> NoWork, reads |-> {}, plain |-> NotCalled]

\* The record of a call op whose outcome is r.
Call(op, r) ==
    [op |-> op, key |-> "", kind |-> r.kind, msg |-> r.msg, val |-> r.val,
     work |-> r.work, reads |-> {}, plain |-> NotCalled]

\* The outcome of a call that gives an object or raises.
Outcome(c) ==
    IF c.ret.ok THEN Returned(PyNone, c.work) ELSE Raised(c.ret.err, "", c.arg, c.work)

Init ==
    /\ enc = NoObject
    /\ hist = NoHist
    /\ env = NoEnvelope
    /\ dec = NoDecryptor
    /\ ret = NoRet
    /\ api = [encryption_key     |-> CHOOSE k \in Passphrases : Len(k) > 2,
              encryption_version |-> PyInt(1)]
    /\ raw_data = EmptyDict
    /\ written = EmptyDict

\* ------------------------------------------------------------ encryption

\* create_encryptor(k, x, v), once in a behaviour.
CreateEncryptor ==
    /\ ret = NoRet
    /\ env = NoEnvelope
    /\ \E k \in Passphrases, x \in Values, v \in RequestedVersions,
          r1 \in RandomBytes, r2 \in RandomBytes :
        \E ce \in {create_encryptor(k, x, v, r1, r2)} :
            /\ enc' = IF ce.ret.ok THEN ce.ret.val ELSE NoObject
            /\ hist' = IF ce.ret.ok THEN [NoHist EXCEPT !.iv0 = ce.ret.val.iv] ELSE NoHist
            /\ ret' = Call("create_encryptor", Outcome(ce))
    /\ UNCHANGED <<env, dec, api, raw_data, written>>

\* enc.encrypt()
Encrypt ==
    /\ enc # NoObject
    /\ hist.n_encrypt + hist.n_to_dict < MaxCalls
    /\ \E e \in {encrypt(enc)} :
           /\ enc' = e.self
           /\ hist' = [hist EXCEPT !.encrypts = @ + e.work.encrypts,
                                   !.hmacs = @ + e.work.hmacs,
                                   !.n_encrypt = @ + 1,
                                   !.enc_rets = @ \cup {e.ret}]
           /\ ret' = Call("encrypt", Returned(PyBytes(e.ret), e.work))
    /\ UNCHANGED <<env, dec, api, raw_data, written>>

\* enc.to_dict(); the dict returned is the envelope in hand afterwards.
ToDict ==
    /\ enc # NoObject
    /\ hist.n_encrypt + hist.n_to_dict < MaxCalls
    /\ \E td \in {to_dict(enc)} :
           /\ enc' = td.self
           /\ hist' = [hist EXCEPT !.encrypts = @ + td.work.encrypts,
                                   !.hmacs = @ + td.work.hmacs,
                                   !.n_to_dict = @ + 1,
                                   !.dict_rets = @ \cup {td.ret}]
           /\ ret' = Call("to_dict",
                          IF td.ret.ok THEN Returned(PyDict(td.ret.val), td.work)
                          ELSE Raised(td.ret.err, "", PyNone, td.work))
           /\ env' = IF td.ret.ok
                     THEN [data |-> td.ret.val, base |-> td.ret.val, src |-> "to_dict",
                           k |-> enc.plain_key, x |-> enc.data,
                           shape |-> <<"enc", "enc">>, tampered |-> ""]
                     ELSE NoEnvelope
    /\ UNCHANGED <<dec, api, raw_data, written>>

\* ------------------------------------------------------------ decryption

\* An envelope written by someone else is read from the store, once in a
\* behaviour.
Receive ==
    /\ ret = NoRet
    /\ env = NoEnvelope
    /\ \E k \in Passphrases, pt \in ForeignPlaintexts, shape \in Shapes :
        \E e \in {Foreign(k, pt, shape)} :
            env' = [data |-> e, base |-> e, src |-> "foreign", k |-> Utf8Encode(k),
                    x |-> PyBytes(pt), shape |-> shape, tampered |-> ""]
    /\ UNCHANGED <<enc, hist, dec, ret, api, raw_data, written>>

\* One of the fields encrypted_data, iv, hmac of the envelope in hand is
\* changed on its way to the reader, the others are left as they were.  The
\* envelope is one an encryptor returned or a sealed one around a wrapper
\* document.
Tamper ==
    /\ \/ env.src = "to_dict"
       \/ env.src = "foreign" /\ env.shape = Sealed /\ env.x[2] \notin Garbage
    /\ env.tampered = ""
    /\ dec = NoDecryptor
    /\ \E f \in {"encrypted_data", "iv", "hmac"} \cap DOMAIN env.data :
         \E t \in Tampered(env.data[f][2]) :
            env' = [env EXCEPT !.data = DictSet(env.data, f, PyStr(t)), !.tampered = f]
    /\ enc' = NoObject
    /\ hist' = NoHist
    /\ ret' = NoRet
    /\ UNCHANGED <<dec, api, raw_data, written>>

\* create_decryptor(k, envelope in hand)
CreateDecryptor ==
    /\ env.src # "none"
    /\ \E k \in Passphrases :
        \E cd \in {create_decryptor(k, env.data)} :
            /\ dec' = [obj        |-> IF cd.ret.ok THEN cd.ret.val ELSE NoObject,
                       passphrase |-> Utf8Encode(k)]
            /\ ret' = [Call("create_decryptor", Outcome(cd)) EXCEPT !.reads = cd.reads]
    /\ enc' = NoObject
    /\ hist' = NoHist
    /\ UNCHANGED <<env, api, raw_data, written>>

\* dec.decrypt() on what create_decryptor returned.
Decrypt ==
    /\ dec.obj # NoObject
    /\ \E plain \in Plains(dec.obj) :
        \E r \in {decrypt(dec.obj, plain)} :
            ret' = [Call("decrypt", r)
                    EXCEPT !.plain = IF r.work.decrypts > 0 THEN plain ELSE NotCalled]
    /\ UNCHANGED <<enc, hist, env, dec, api, raw_data, written>>

Next ==
    \/ CreateEncryptor
    \/ Encrypt
    \/ ToDict
    \/ Receive
    \/ Tamper
    \/ CreateDecryptor
    \/ Decrypt

Spec == Init /\ [][Next]_vars

\* ------------------------------------------------------------ the item

\* The configured encryption version changes.
Configure ==
    /\ \E v \in ConfiguredVersions : api' = [api EXCEPT !.encryption_version = v]
    /\ api' # api
    /\ UNCHANGED <<enc, hist, env, dec, ret, raw_data, written>>

\* item[key] = value
SetItem ==
    \E key \in ItemKeys, value \in Values, r1 \in RandomBytes, r2 \in RandomBytes :
        \E s \in {setitem(raw_data, api, key, value, r1, r2)} :
            /\ raw_data' = s.raw_data
            /\ ret' = [Call("setitem", s.out) EXCEPT !.key = key]
            /\ written' =
                 IF s.out.kind = "ok"
                 THEN DictSet(written, key,
                              [value   |-> value,
                               version |-> IF key = "id" THEN PyNone
                                           ELSE api.encryption_version])
                 ELSE written
            /\ UNCHANGED <<enc, hist, env, dec, api>>

\* item[key]
GetItem ==
    \E key \in ItemKeys :
        \E plain \in Plains(getitem_decryptor(raw_data, api, key).ret.val) :
            \E r \in {getitem(raw_data, api, key, plain)} :
                /\ ret' = [Call("getitem", r)
                           EXCEPT !.key = key,
                                  !.plain = IF r.work.decrypts > 0 THEN plain
                                            ELSE NotCalled]
                /\ UNCHANGED <<enc, hist, env, dec, api, raw_data, written>>

ItemNext ==
    \/ Configure
    \/ SetItem
    \/ GetItem

ItemSpec == Init /\ [][ItemNext]_vars

\* ------------------------------------------------------------ claims

\* The last call failed with the integrity error of line 152.
IntegrityError == ret.kind = DecryptionError /\ ret.msg = HmacFailed

\* The last call failed with the generic decryption error of line 126.
GenericError == ret.kind = DecryptionError /\ ret.msg = KeyIncorrect

\* decrypt() was called on a decryptor built with the writer's passphrase.
SameKey == ret.op = "decrypt" /\ dec.passphrase = env.k

\* decrypt() was called on the decryptor of an envelope an encryptor
\* returned, unchanged, with the passphrase given to the encryptor.
RoundTrip == SameKey /\ env.src = "to_dict" /\ env.tampered = ""

\* C1: for versions 1 and 2, every passphrase k and value x,
\* create_decryptor(k, create_encryptor(k, x, v).to_dict()).decrypt()
\* returns x.
C1_RoundTrip == RoundTrip => ret.kind = "ok" /\ ret.val = env.x

\* The decryptor obj passes its own integrity check and decrypt() returns a
\* value.
Usable(obj) ==
    /\ obj.cls = "DecryptorVersion2"
    /\ validate_hmac(obj) = Ok(TRUE)
    /\ \A plain \in Plains(obj) : decrypt(obj, plain).kind = "ok"

\* DecryptorVersion2 accepts the envelope data with the passphrase whose
\* bytes are kb.
Accepts(kb, data) ==
    \E k \in Passphrases :
        /\ Utf8Encode(k) = kb
        /\ create_decryptor(k, data).ret.ok
        /\ Usable(create_decryptor(k, data).ret.val)

\* decrypt() was called, with the passphrase k, on the version 2 decryptor
\* of an envelope of which one field was changed and which DecryptorVersion2
\* accepted with k before the change.
TamperedAccepted ==
    /\ ret.op = "decrypt"
    /\ env.tampered # ""
    /\ dec.obj.cls = "DecryptorVersion2"
    /\ Accepts(dec.passphrase, env.base)

\* C2: changing any one of encrypted_data, iv, hmac of a version 2 envelope
\* that DecryptorVersion2 accepts with k makes decrypt() with k fail with the
\* integrity error; it returns no value and fails with no other error.
C2_AnyFieldDetected == TamperedAccepted => IntegrityError

\* C3: create_encryptor with a version outside {1, 2} fails with the
\* unsupported-version error carrying that version, before any IV is drawn,
\* any key derived or any cipher object constructed.
C3_NoWorkBeforeError ==
    (ret.op = "create_encryptor" /\ ret.kind # "ok") =>
        /\ ret.kind = UnsupportedVersion
        /\ ret.val \in RequestedVersions \ {PyInt(v) : v \in SUPPORTED_ENCRYPTION_VERSIONS}
        /\ ret.work = NoWork

\* What C4 says of the stored fields and of the last read.
C4_Stored ==
    /\ DOMAIN raw_data = DOMAIN written
    /\ \A key \in DOMAIN raw_data :
           IF key = "id" THEN raw_data[key] = written[key].value
           ELSE /\ raw_data[key][1] = "dict"
                /\ {"encrypted_data", "iv", "version", "cipher"} \subseteq DOMAIN raw_data[key][2]
                /\ raw_data[key][2]["version"] = written[key].version
    /\ (ret.op = "getitem" /\ ret.key = "id" /\ "id" \in DOMAIN raw_data) =>
           /\ ret.kind = "ok"
           /\ ret.val = raw_data["id"]
           /\ ret.work = NoWork
    /\ (ret.op = "getitem" /\ ret.key # "id" /\ ret.key \in DOMAIN raw_data) =>
           /\ ret.work.decryptors = 1
           /\ ret.kind = "ok" => ret.val = written[ret.key].value

\* C4: raw_data['id'] holds the last value written to 'id', every other
\* written key holds an envelope of the version configured at the write;
\* __getitem__('id') returns raw_data['id'] without a decryptor, __getitem__
\* of another key returns what decrypting the stored envelope gives and
\* leaves raw_data unchanged.
C4_RecordHooks == []C4_Stored /\ [][ret'.op = "getitem" => raw_data' = raw_data]_vars

\* An encrypted field and 'id' were written and the encrypted field read back.
C4_Witness ==
    /\ DOMAIN raw_data = ItemKeys
    /\ ret.op = "getitem" /\ ret.key # "id" /\ ret.kind = "ok"
    /\ raw_data["a"][2]["version"] = PyInt(1)

\* C5: for an envelope without 'version', create_decryptor returns a
\* DecryptorVersion1 built from encrypted_data and iv only; 'hmac' is never
\* read and no integrity check is performed.
C5_DefaultsToVersion1 ==
    ("version" \notin DOMAIN env.data /\ ret.op \in {"create_decryptor", "decrypt"}) =>
        /\ dec.obj.cls = "DecryptorVersion1"
        /\ dec.obj.data = standard_b64decode(env.data["encrypted_data"][2]).val
        /\ dec.obj.iv = standard_b64decode(env.data["iv"][2]).val
        /\ ret.work.hmacs = 0
        /\ ret.op = "create_decryptor" => ret.reads = {"encrypted_data", "iv"}

\* An envelope without 'version' that holds a tag was decrypted.
C5_Witness ==
    /\ "version" \notin DOMAIN env.data
    /\ "hmac" \in DOMAIN env.data
    /\ ret.op = "decrypt"
    /\ ret.kind = "ok"

\* The fields of a version 1 envelope.
Version1Fields == {"encrypted_data", "iv", "version", "cipher"}

\* C6: to_dict() of a version 1 encryptor returns exactly encrypted_data,
\* iv, version == 1 and cipher == "aes-256-cbc"; of a version 2 encryptor
\* those four with version == 2 plus hmac, also when encrypt() was never
\* called before; the tag is never absent or None.
C6_EnvelopeShape ==
    ret.op = "to_dict" =>
        /\ ret.kind = "ok"
        /\ DOMAIN ret.val[2] =
               Version1Fields \cup (IF enc.VERSION = 2 THEN {"hmac"} ELSE {})
        /\ ret.val[2]["version"] = PyInt(enc.VERSION)
        /\ ret.val[2]["cipher"] = PyStr(CipherName)
        /\ standard_b64decode(ret.val[2]["encrypted_data"][2]) = Ok(enc.encrypted_data)
        /\ standard_b64decode(ret.val[2]["iv"][2]) = Ok(enc.iv)
        /\ enc.VERSION = 2 =>
               /\ enc.hmac # None
               /\ standard_b64decode(ret.val[2]["hmac"][2]) = Ok(enc.hmac)
               /\ Len(enc.hmac) = DigestSize

\* to_dict() was the first call on a version 2 encryptor.
C6_Witness ==
    /\ ret.op = "to_dict"
    /\ enc.VERSION = 2
    /\ hist.n_encrypt = 0
    /\ hist.n_to_dict = 1

\* The tag DecryptorVersion2 expects for the decryptor in hand.
ExpectedTag == hmac_new(dec.obj.key, Utf8Encode(dec.obj.encoded_data))

\* C7: DecryptorVersion2.decrypt() calls the cipher only after the tag was
\* found equal; for every stored tag that differs from the expected one,
\* also a shorter or longer one, it fails with the integrity error and
\* with no other error.
C7_IntegrityFirst ==
    (ret.op = "decrypt" /\ dec.obj.cls = "DecryptorVersion2") =>
        /\ ret.work.decrypts > 0 => dec.obj.hmac = ExpectedTag
        /\ dec.obj.hmac # ExpectedTag => IntegrityError

\* C8: for an envelope whose 'version' passes the validation (the ints 1, 2
\* and the texts "1", "2"), create_decryptor returns a decryptor of the
\* matching version, never None.
C8_DispatchMatches ==
    (/\ ret.op = "create_decryptor"
     /\ ret.kind = "ok"
     /\ "version" \in DOMAIN env.data) =>
        dec.obj.cls = (IF Str(env.data["version"]) = Str(PyInt(1))
                       THEN "DecryptorVersion1" ELSE "DecryptorVersion2")

\* C9: over any sequence of encrypt() and to_dict() calls on one encryptor
\* the IV stays the one of the construction, the cipher encrypts at most
\* once, the tag is computed at most once, every encrypt() returns the same
\* ciphertext and every to_dict() the same envelope.
C9_Memoized ==
    enc # NoObject =>
        /\ enc.iv = hist.iv0
        /\ hist.encrypts <= 1
        /\ hist.hmacs <= 1
        /\ hist.hmacs = (IF enc.VERSION = 2 THEN hist.encrypts ELSE 0)
        /\ hist.n_encrypt + hist.n_to_dict > 0 => hist.encrypts = 1
        /\ Cardinality(hist.enc_rets) <= 1
        /\ Cardinality(hist.dict_rets) <= 1
        /\ hist.enc_rets \subseteq {enc.encrypted_data}

\* A version 2 encryptor was asked as often as the model follows it, both
\* for the ciphertext and for the envelope.
C9_Witness ==
    /\ enc # NoObject
    /\ enc.VERSION = 2
    /\ hist.n_encrypt + hist.n_to_dict = MaxCalls
    /\ hist.n_encrypt > 0
    /\ hist.n_to_dict > 0

\* The bytes are the wrapper document of some value.
WrapperDocument(b) == \E x \in Values : b = Utf8Encode(JsonDumps(Wrap(x)))

\* C10: whenever the bytes the cipher gave are no wrapper document,
\* decrypt() fails with the generic decryption error; it returns no value
\* and raises no other error.
C10_GenericFailure ==
    (ret.op = "decrypt" /\ ret.plain.ok /\ ~WrapperDocument(ret.plain.val)) =>
        GenericError

====
